---- MODULE Spec2Model ----
(***************************************************************************)
(* Model of the MathSnap Solver pipeline: the three stage functions        *)
(* (extractMathText, fixOcrErrors, solveMathExpression) and the MathSolver *)
(* controller component that sequences them.                               *)
(*                                                                         *)
(* JavaScript strings are modelled as sequences of tokens.  A token is a   *)
(* whitespace character (WS), a content word ("x", "y", ...) or a reserved *)
(* word of the program (a status marker, a solution prefix, a substring    *)
(* the code searches for).  '' is the empty sequence.  null and undefined  *)
(* are the one-token sequences Null and Undefined, whose tokens never      *)
(* occur inside a string.                                                  *)
(***************************************************************************)
EXTENDS Naturals, Sequences, FiniteSets

VARIABLES
    \* ---- MathSolver component state (useState hooks) ----
    imageUrl, preprocessedImageUrl,
    ocrFullText, ocrExpression,
    correctedFullText, correctedExpression,
    solution,
    isLoadingOcr, isLoadingCorrection, isLoadingSolution,
    error,
    \* ---- asynchronous work in flight ----
    readers,        \* FileReader loads started by handleImageUpload
    ocrCalls,       \* extractMathText calls awaiting their result
    corrCalls,      \* fixOcrErrors calls awaiting their result
    solveCalls,     \* solveMathExpression calls awaiting their result
    \* ---- history (not program state) ----
    uploads,        \* number of images uploaded so far
    lastEvent,      \* the handler that ran in the last step
    svcCalled,      \* the model services requested by the last step
    solvedFrom,     \* the corrected text the held solution was requested for
    lastReturn,     \* the call whose result the last step handled, and the result
    \* ---- stage functions applied in isolation ----
    stageIn, stageOut

ctlVars == <<imageUrl, preprocessedImageUrl, ocrFullText, ocrExpression,
             correctedFullText, correctedExpression, solution,
             isLoadingOcr, isLoadingCorrection, isLoadingSolution, error>>
flightVars == <<readers, ocrCalls, corrCalls, solveCalls>>
histVars == <<uploads, lastEvent, svcCalled, solvedFrom, lastReturn>>
stageVars == <<stageIn, stageOut>>
vars == <<ctlVars, flightVars, histVars, stageVars>>

-----------------------------------------------------------------------------
(* JavaScript values *)

Null == <<"null">>
Undefined == <<"undefined">>
Empty == <<>>
WS == " "

\* typeof v === 'string'
IsString(v) == v # Null /\ v # Undefined

\* JavaScript truthiness of a string-or-null value: !v is true of null,
\* undefined and ''.
Truthy(v) == IsString(v) /\ v # Empty

RECURSIVE TrimStart(_)
TrimStart(s) == IF s # <<>> /\ Head(s) = WS THEN TrimStart(Tail(s)) ELSE s

RECURSIVE TrimEnd(_)
TrimEnd(s) ==
    IF s # <<>> /\ s[Len(s)] = WS THEN TrimEnd(SubSeq(s, 1, Len(s) - 1)) ELSE s

\* A variant: only the leading whitespace is removed.
Trim_LeadingOnly(s) == TrimStart(s)

\* String.prototype.trim
Trim(s) == TrimEnd(TrimStart(s))

\* String.prototype.startsWith, for a one-token prefix
StartsWith(s, tok) == s # <<>> /\ Head(s) = tok

\* String.prototype.includes, for a one-token needle
Includes(s, tok) == \E i \in 1..Len(s) : s[i] = tok

UpperToken(t) ==
    CASE t = "no_text_found" -> "NO_TEXT_FOUND"
      [] t = "No_Text_Found" -> "NO_TEXT_FOUND"
      [] t = "x" -> "X"
      [] t = "y" -> "Y"
      [] OTHER -> t

LowerToken(t) ==
    CASE t = "Solver" -> "solver"
      [] t = "Solving" -> "solving"
      [] t = "NO_TEXT_FOUND" -> "no_text_found"
      [] OTHER -> t

\* A variant: the text is compared as it is, without case folding.
ToUpperCase_Unchanged(s) == s

\* String.prototype.toUpperCase / toLowerCase
ToUpperCase(s) == [i \in 1..Len(s) |-> UpperToken(s[i])]
ToLowerCase(s) == [i \in 1..Len(s) |-> LowerToken(s[i])]

-----------------------------------------------------------------------------
(* Status markers and reserved prefixes *)

NO_TEXT_FOUND == <<"NO_TEXT_FOUND">>
OCR_PROCESSING_ERROR == <<"OCR_PROCESSING_ERROR">>
OCR_BLOCKED_BY_SAFETY == <<"OCR_BLOCKED_BY_SAFETY">>
PREPROCESSING_ERROR == <<"PREPROCESSING", "_ERROR">>
API_ERROR_INVALID_KEY == <<"API_", "ERROR_INVALID_KEY">>
API_ERROR_QUOTA == <<"API_", "ERROR_QUOTA">>
API_GENERAL_ERROR == <<"API_", "GENERAL_ERROR">>

MATH_AI_ERROR_PREFIX == "**Error:**"
MATH_AI_CONCLUSION_PREFIX == "**Conclusion:**"

\* The seven status markers of the pipeline (the correction flow's bypass list).
BYPASS_CORRECTION_MESSAGES ==
    {NO_TEXT_FOUND, OCR_PROCESSING_ERROR, PREPROCESSING_ERROR,
     API_ERROR_INVALID_KEY, API_ERROR_QUOTA, API_GENERAL_ERROR,
     OCR_BLOCKED_BY_SAFETY}

\* The two markers the solve flow knows.
SOLVE_INVALID_MESSAGES == {NO_TEXT_FOUND, OCR_PROCESSING_ERROR}

\* The controller's list: every marker but NO_TEXT_FOUND.
BYPASS_ALL_PROCESSING_MESSAGES ==
    {OCR_PROCESSING_ERROR, PREPROCESSING_ERROR, API_ERROR_INVALID_KEY,
     API_ERROR_QUOTA, API_GENERAL_ERROR, OCR_BLOCKED_BY_SAFETY}

StatusMarkers == BYPASS_CORRECTION_MESSAGES

\* Valid content: a non-empty string that is no status marker.
IsValidContent(t) == Truthy(t) /\ t \notin StatusMarkers

-----------------------------------------------------------------------------
(* Outcomes of the external collaborators.  A thrown value is a record    *)
(* [isError, message]: `error instanceof Error` and its message (for a    *)
(* non-Error value, message is String(error)).                            *)

Thrown(isErr, msg) == [isError |-> isErr, message |-> msg]
NoThrow == Thrown(FALSE, Empty)

\* Image preprocessing collaborator: it throws, or resolves to a data URI.
PreOutcome(throws, uri) == [throws |-> throws, uri |-> uri]

\* Vision service (the extraction prompt): it throws, or resolves to a
\* response that may be null, may lack an output, carries a finishReason,
\* and whose output may lack the fullText key.
VisionThrow(err) ==
    [throws |-> TRUE, err |-> err, isNull |-> FALSE, hasOutput |-> FALSE,
     finishReason |-> "STOP", hasFullText |-> FALSE,
     fullText |-> Undefined, extractedExpression |-> Undefined]
VisionResponse(isNull, hasOutput, finish, hasFullText, fullText, expr) ==
    [throws |-> FALSE, err |-> NoThrow, isNull |-> isNull,
     hasOutput |-> hasOutput, finishReason |-> finish,
     hasFullText |-> hasFullText, fullText |-> fullText,
     extractedExpression |-> expr]
VisionText(fullText, expr) ==
    VisionResponse(FALSE, TRUE, "STOP", TRUE, fullText, expr)

\* Correction service (the correction prompt).
CorrThrow(err) ==
    [throws |-> TRUE, err |-> err, hasOutput |-> FALSE,
     correctedText |-> Undefined, correctedExpression |-> Undefined]
CorrResponse(hasOutput, text, expr) ==
    [throws |-> FALSE, err |-> NoThrow, hasOutput |-> hasOutput,
     correctedText |-> text, correctedExpression |-> expr]

\* Solver service (the solver prompt).
SolverThrow(err) ==
    [throws |-> TRUE, err |-> err, hasOutput |-> FALSE, solution |-> Undefined]
SolverResponse(hasOutput, sol) ==
    [throws |-> FALSE, err |-> NoThrow, hasOutput |-> hasOutput, solution |-> sol]

-----------------------------------------------------------------------------
(* Extraction stage *)

DATA_IMAGE == "data:image/"

\* A variant: only a missing image is rejected.
InvalidImageDataUri_MissingOnly(uri) == ~Truthy(uri)

\* The image is missing or is no 'data:image/' URI.
InvalidImageDataUri(uri) == ~Truthy(uri) \/ ~StartsWith(uri, DATA_IMAGE)

\* A variant: a collaborator that decodes the image and fails on a URI
\* without base64 data.
preprocessImageForOcr_DecodesImage(uri) ==
    IF ~Truthy(uri) \/ ~StartsWith(uri, DATA_IMAGE) \/ ~Includes(uri, ";base64,")
    THEN PreOutcome(TRUE, Undefined)
    ELSE PreOutcome(FALSE, uri)

\* The placeholder preprocessing collaborator: validates, returns its input.
preprocessImageForOcr(uri) ==
    IF ~Truthy(uri) \/ ~StartsWith(uri, DATA_IMAGE)
    THEN PreOutcome(TRUE, Undefined)
    ELSE PreOutcome(FALSE, uri)

\* A variant: every transport error is a general service error.
ExtractErrorMarker_AlwaysGeneral(err) == API_GENERAL_ERROR

\* The catch block of the extraction flow: classify the transport error.
ExtractErrorMarker(err) ==
    LET errorMsg == err.message
    IN  IF Includes(errorMsg, "API key not valid") \/ Includes(errorMsg, "permission denied")
        THEN API_ERROR_INVALID_KEY
        ELSE IF Includes(errorMsg, "quota") \/ Includes(errorMsg, "Quota")
        THEN API_ERROR_QUOTA
        ELSE API_GENERAL_ERROR

FlowResult(fullText, expr) == [fullText |-> fullText, extractedExpression |-> expr]

\* A variant: an output whose fullText is null is a processing error.
extractMathTextFlow_NullTextIsError(v) ==
    IF v.throws THEN FlowResult(ExtractErrorMarker(v.err), Null)
    ELSE IF v.isNull \/ ~v.hasOutput THEN FlowResult(OCR_PROCESSING_ERROR, Null)
    ELSE IF v.finishReason = "SAFETY" THEN FlowResult(OCR_BLOCKED_BY_SAFETY, Null)
    ELSE IF ~v.hasFullText \/ ~IsString(v.fullText)
    THEN FlowResult(OCR_PROCESSING_ERROR, Null)
    ELSE LET trimmedFullText == Trim(v.fullText)
             trimmedExpression ==
                 IF IsString(v.extractedExpression) /\ Trim(v.extractedExpression) # Empty
                 THEN Trim(v.extractedExpression)
                 ELSE Null
         IN  IF trimmedFullText = Empty \/ ToUpperCase(trimmedFullText) = NO_TEXT_FOUND
             THEN FlowResult(NO_TEXT_FOUND, Null)
             ELSE FlowResult(trimmedFullText, trimmedExpression)

\* extractMathTextFlow: one call of the vision service, v its outcome.
extractMathTextFlow(v) ==
    IF v.throws THEN FlowResult(ExtractErrorMarker(v.err), Null)
    ELSE IF v.isNull \/ ~v.hasOutput THEN FlowResult(OCR_PROCESSING_ERROR, Null)
    ELSE IF v.finishReason = "SAFETY" THEN FlowResult(OCR_BLOCKED_BY_SAFETY, Null)
    ELSE IF ~v.hasFullText THEN FlowResult(OCR_PROCESSING_ERROR, Null)
    ELSE IF ~IsString(v.fullText) THEN FlowResult(NO_TEXT_FOUND, Null)
    ELSE LET trimmedFullText == Trim(v.fullText)
             trimmedExpression ==
                 IF IsString(v.extractedExpression) /\ Trim(v.extractedExpression) # Empty
                 THEN Trim(v.extractedExpression)
                 ELSE Null
         IN  IF trimmedFullText = Empty \/ ToUpperCase(trimmedFullText) = NO_TEXT_FOUND
             THEN FlowResult(NO_TEXT_FOUND, Null)
             ELSE FlowResult(trimmedFullText, trimmedExpression)

ExtractOutput(fullText, expr, pre, preCalls, visionCalls) ==
    [fullText |-> fullText, extractedExpression |-> expr,
     preprocessedImageUri |-> pre, preCalls |-> preCalls, visionCalls |-> visionCalls]

\* A variant: a failed preprocessing falls back to the original image and
\* the vision service is still called.
extractMathText_FallsBackToOriginal(uri, pre, v) ==
    IF InvalidImageDataUri(uri)
    THEN ExtractOutput(OCR_PROCESSING_ERROR, Null, uri, 0, 0)
    ELSE LET flowUri == IF ~pre.throws /\ Truthy(pre.uri) THEN pre.uri ELSE uri
             flowResult == extractMathTextFlow(v)
         IN  ExtractOutput(flowResult.fullText, flowResult.extractedExpression,
                           flowUri, 1, 1)

\* A variant: a vision call that threw is made a second time.
extractMathText_RetriesVision(uri, pre, v) ==
    IF InvalidImageDataUri(uri)
    THEN ExtractOutput(OCR_PROCESSING_ERROR, Null, uri, 0, 0)
    ELSE IF pre.throws
    THEN ExtractOutput(PREPROCESSING_ERROR, Null, uri, 1, 0)
    ELSE LET flowUri == IF Truthy(pre.uri) THEN pre.uri ELSE uri
             flowResult == extractMathTextFlow(v)
         IN  ExtractOutput(flowResult.fullText, flowResult.extractedExpression,
                           flowUri, 1, IF v.throws THEN 2 ELSE 1)

\* extractMathText(input): pre is the outcome the preprocessing collaborator
\* has for this image, v the outcome of the vision service; preCalls and
\* visionCalls count the calls made to each.
extractMathText(uri, pre, v) ==
    IF InvalidImageDataUri(uri)
    THEN ExtractOutput(OCR_PROCESSING_ERROR, Null, uri, 0, 0)
    ELSE IF pre.throws
    THEN ExtractOutput(PREPROCESSING_ERROR, Null, uri, 1, 0)
    ELSE LET flowUri == IF Truthy(pre.uri) THEN pre.uri ELSE uri
             flowResult == extractMathTextFlow(v)
         IN  ExtractOutput(flowResult.fullText, flowResult.extractedExpression,
                           flowUri, 1, 1)

-----------------------------------------------------------------------------
(* Correction stage *)

CorrOutput(text, expr, calls) ==
    [correctedText |-> text, correctedExpression |-> expr, calls |-> calls]

\* A variant: the bypass test knows only the two markers of the solve flow.
BypassCorrection_TwoMarkers(inText) ==
    ~Truthy(inText) \/ inText \in SOLVE_INVALID_MESSAGES

\* The bypass test of fixOcrErrors.
BypassCorrection(inText) ==
    ~Truthy(inText) \/ inText \in BYPASS_CORRECTION_MESSAGES

\* The success path of fixOcrErrorsFlow: the response trimmed, a blank
\* expression turned into null.
TrimmedCorrection(c) ==
    LET trimmedCorrectedText == Trim(c.correctedText)
        trimmedCorrectedExpression ==
            IF IsString(c.correctedExpression) /\ Trim(c.correctedExpression) # Empty
            THEN Trim(c.correctedExpression)
            ELSE Null
    IN  CorrOutput(trimmedCorrectedText, trimmedCorrectedExpression, 1)

\* A variant: a failed correction returns the text but drops the expression.
fixOcrErrorsFlow_DropsExpression(inText, inExpression, c) ==
    IF c.throws \/ ~c.hasOutput \/ ~IsString(c.correctedText)
    THEN CorrOutput(inText, Null, 1)
    ELSE TrimmedCorrection(c)

\* fixOcrErrorsFlow: one call of the correction service, c its outcome.
fixOcrErrorsFlow(inText, inExpression, c) ==
    IF c.throws
    THEN CorrOutput(inText, inExpression, 1)
    ELSE IF ~c.hasOutput \/ ~IsString(c.correctedText)
    THEN CorrOutput(inText, inExpression, 1)
    ELSE TrimmedCorrection(c)

\* fixOcrErrors(input)
fixOcrErrors(inText, inExpression, c) ==
    IF BypassCorrection(inText)
    THEN CorrOutput(inText, Null, 0)
    ELSE fixOcrErrorsFlow(inText, inExpression, c)

-----------------------------------------------------------------------------
(* Solve stage *)

\* sentContext / sentExpression: what the solver service was called with
\* (Undefined when it was not called).
SolveOutput(sol, calls, ctx, expr) ==
    [solution |-> sol, calls |-> calls, sentContext |-> ctx, sentExpression |-> expr]

\* The input validation of solveMathExpression.
SolveShortCircuit(fullTextContext) ==
    ~Truthy(fullTextContext) \/ fullTextContext \in SOLVE_INVALID_MESSAGES

\* An exception that leaves a stage function instead of a result.
Propagated(err) == [thrown |-> TRUE, err |-> err]

\* A variant: the catch block reports every failure with the same text.
solveMathExpressionFlow_GenericError(fullTextContext, expression, s) ==
    IF s.throws
    THEN SolveOutput(<<MATH_AI_ERROR_PREFIX,
                       " An unexpected error occurred while trying to solve the problem: ",
                       "An unknown error occurred during solving.">>,
                     1, fullTextContext, expression)
    ELSE IF ~s.hasOutput \/ ~IsString(s.solution)
    THEN SolveOutput(<<MATH_AI_ERROR_PREFIX, " The AI solver failed to generate a response.">>,
                     1, fullTextContext, expression)
    ELSE SolveOutput(s.solution, 1, fullTextContext, expression)

\* A variant: no catch block, the failure of the solver call leaves the flow.
solveMathExpressionFlow_Rethrows(fullTextContext, expression, s) ==
    IF s.throws
    THEN Propagated(s.err)
    ELSE IF ~s.hasOutput \/ ~IsString(s.solution)
    THEN SolveOutput(<<MATH_AI_ERROR_PREFIX, " The AI solver failed to generate a response.">>,
                     1, fullTextContext, expression)
    ELSE SolveOutput(s.solution, 1, fullTextContext, expression)

\* solveMathExpressionFlow: one call of the solver service, s its outcome.
solveMathExpressionFlow(fullTextContext, expression, s) ==
    IF s.throws
    THEN LET errorMsg == IF s.err.isError THEN s.err.message
                         ELSE <<"An unknown error occurred during solving.">>
         IN  SolveOutput(<<MATH_AI_ERROR_PREFIX,
                           " An unexpected error occurred while trying to solve the problem: ">>
                         \o errorMsg, 1, fullTextContext, expression)
    ELSE IF ~s.hasOutput \/ ~IsString(s.solution)
    THEN SolveOutput(<<MATH_AI_ERROR_PREFIX, " The AI solver failed to generate a response.">>,
                     1, fullTextContext, expression)
    ELSE SolveOutput(s.solution, 1, fullTextContext, expression)

\* A variant: an expression that is a status message is passed on as it is.
solveMathExpression_KeepsExpression(fullTextContext, expression, s) ==
    IF SolveShortCircuit(fullTextContext)
    THEN LET reason == IF ~Truthy(fullTextContext) THEN "is missing"
                       ELSE "indicates an upstream error"
         IN  SolveOutput(<<MATH_AI_ERROR_PREFIX,
                           " Cannot solve because the required text context ", reason>>,
                         0, Undefined, Undefined)
    ELSE solveMathExpressionFlow(fullTextContext, expression, s)

\* solveMathExpression(input)
solveMathExpression(fullTextContext, expression, s) ==
    IF SolveShortCircuit(fullTextContext)
    THEN LET reason == IF ~Truthy(fullTextContext) THEN "is missing"
                       ELSE "indicates an upstream error"
         IN  SolveOutput(<<MATH_AI_ERROR_PREFIX,
                           " Cannot solve because the required text context ", reason>>,
                         0, Undefined, Undefined)
    ELSE LET expr == IF Truthy(expression) /\ expression \in SOLVE_INVALID_MESSAGES
                     THEN Null ELSE expression
         IN  solveMathExpressionFlow(fullTextContext, expr, s)

-----------------------------------------------------------------------------
(* Bounds and the finite sets the inputs are drawn from *)

\* Images uploaded in one run of the controller.
MaxUploads == 2

NoImage == 0

ValidUri == <<DATA_IMAGE, "png">>

\* What FileReader.result can be.
ReaderResults == {ValidUri, <<"data:text/", "plain">>, Null}

\* Values thrown by a failing call.
ErrNetwork == Thrown(TRUE, <<"fetch failed">>)
ErrKey == Thrown(TRUE, <<"400: ", "API key not valid">>)
ErrQuota == Thrown(TRUE, <<"429: ", "Quota", " exceeded">>)
ErrNotError == Thrown(FALSE, <<"timeout">>)

\* Outcomes of the vision service seen by the controller.
VisionOutcomes ==
    {VisionText(<<"x">>, <<"e">>), VisionText(<<WS, "x", WS>>, Null),
     VisionText(<<WS>>, <<"e">>), VisionText(<<"no_text_found">>, Null),
     VisionResponse(FALSE, TRUE, "SAFETY", TRUE, <<"x">>, Null),
     VisionResponse(FALSE, FALSE, "STOP", FALSE, Undefined, Undefined),
     VisionThrow(ErrKey), VisionThrow(ErrQuota), VisionThrow(ErrNetwork)}

\* Outcomes of the correction service seen by the controller.
CorrOutcomes ==
    {CorrResponse(TRUE, <<"y">>, <<"e">>), CorrResponse(TRUE, <<"x">>, Null),
     CorrResponse(TRUE, <<WS>>, <<WS>>),
     CorrResponse(FALSE, Undefined, Undefined), CorrThrow(ErrNetwork)}

\* Outcomes of the solver service seen by the controller.
SolverOutcomes ==
    {SolverResponse(TRUE, <<"42">>),
     SolverResponse(TRUE, <<MATH_AI_CONCLUSION_PREFIX, " no real solution">>),
     SolverResponse(TRUE, Empty),
     SolverResponse(FALSE, Undefined), SolverThrow(ErrNetwork)}

\* What the user types into the two editable fields.
EditTexts == {Empty, <<"z">>, API_ERROR_QUOTA}
EditExpressions == {Empty, <<WS>>, <<"f">>}

\* The result of a call that threw or resolved to null, and the call of a
\* step that handled no result (records, as results and calls are).
NullResult == [isNull |-> TRUE]
NoCall == [img |-> NoImage]

\* A call of a server action from the component: it throws (the request
\* failed), resolves to null, or resolves to the stage function's result.
Rpc(kind, err, result) == [kind |-> kind, err |-> err, result |-> result]

\* No result was handled by the last step.
NoReturn == [call |-> NoCall, rpc |-> Rpc("none", NoThrow, NullResult)]

-----------------------------------------------------------------------------
(* MathSolver component: derived state *)

isProcessing == isLoadingOcr \/ isLoadingCorrection \/ isLoadingSolution

hasValidOcrText ==
    /\ Truthy(ocrFullText)
    /\ ocrFullText \notin BYPASS_ALL_PROCESSING_MESSAGES
    /\ ocrFullText # NO_TEXT_FOUND

canSolve == Truthy(correctedFullText) /\ Trim(correctedFullText) # Empty /\ hasValidOcrText

canCorrect == hasValidOcrText

\* err instanceof Error ? err.message : "Unknown error."
CaughtMessage(err) == IF err.isError THEN err.message ELSE <<"Unknown error.">>

\* The expression normalisation of the component: a non-blank string trimmed,
\* anything else null.
TrimOrNull(e) == IF IsString(e) /\ Trim(e) # Empty THEN Trim(e) ELSE Null

\* error.toLowerCase().includes('solver') || ...includes('solving')
IsSolverError(err) ==
    Truthy(err) /\ (Includes(ToLowerCase(err), "solver") \/ Includes(ToLowerCase(err), "solving"))

Init ==
    /\ imageUrl = NoImage
    /\ preprocessedImageUrl = Null
    /\ ocrFullText = Empty
    /\ ocrExpression = Null
    /\ correctedFullText = Empty
    /\ correctedExpression = Null
    /\ solution = Empty
    /\ isLoadingOcr = FALSE
    /\ isLoadingCorrection = FALSE
    /\ isLoadingSolution = FALSE
    /\ error = Null
    /\ readers = {}
    /\ ocrCalls = {}
    /\ corrCalls = {}
    /\ solveCalls = {}
    /\ uploads = 0
    /\ lastEvent = "init"
    /\ svcCalled = {}
    /\ solvedFrom = Empty
    /\ lastReturn = NoReturn
    /\ stageIn = [fn |-> "none"]
    /\ stageOut = [done |-> FALSE]

-----------------------------------------------------------------------------
(* MathSolver component: handlers *)

\* A variant: the upload keeps the solution of the previous image.
handleImageUpload_KeepsSolution ==
    /\ uploads < MaxUploads
    /\ uploads' = uploads + 1
    /\ imageUrl' = uploads + 1
    /\ error' = Null
    /\ ocrFullText' = Empty
    /\ ocrExpression' = Null
    /\ correctedFullText' = Empty
    /\ correctedExpression' = Null
    /\ preprocessedImageUrl' = Null
    /\ readers' = readers \cup {uploads + 1}
    /\ lastEvent' = "handleImageUpload"
    /\ lastReturn' = NoReturn
    /\ svcCalled' = {}
    /\ UNCHANGED <<solution, solvedFrom, isLoadingOcr, isLoadingCorrection,
                   isLoadingSolution, ocrCalls, corrCalls, solveCalls, stageVars>>

\* handleImageUpload: preview the file, clear the previous results, start
\* reading the file.
handleImageUpload ==
    /\ uploads < MaxUploads
    /\ uploads' = uploads + 1
    /\ imageUrl' = uploads + 1
    /\ error' = Null
    /\ ocrFullText' = Empty
    /\ ocrExpression' = Null
    /\ correctedFullText' = Empty
    /\ correctedExpression' = Null
    /\ solution' = Empty
    /\ preprocessedImageUrl' = Null
    /\ readers' = readers \cup {uploads + 1}
    /\ lastEvent' = "handleImageUpload"
    /\ lastReturn' = NoReturn
    /\ svcCalled' = {}
    /\ solvedFrom' = Empty
    /\ UNCHANGED <<isLoadingOcr, isLoadingCorrection, isLoadingSolution,
                   ocrCalls, corrCalls, solveCalls, stageVars>>

\* The synchronous head of triggerOcr: raise the flag, clear the results,
\* call extractMathText.
triggerOcrStart(img, imageDataUri) ==
    /\ isLoadingOcr' = TRUE
    /\ error' = Null
    /\ ocrFullText' = Empty
    /\ ocrExpression' = Null
    /\ correctedFullText' = Empty
    /\ correctedExpression' = Null
    /\ solution' = Empty
    /\ preprocessedImageUrl' = Null
    /\ ocrCalls' = ocrCalls \cup {[img |-> img, uri |-> imageDataUri]}
    /\ svcCalled' =
         IF extractMathText(imageDataUri, preprocessImageForOcr(imageDataUri),
                            VisionThrow(ErrNetwork)).visionCalls > 0
         THEN {"vision"} ELSE {}
    /\ solvedFrom' = Empty
    /\ UNCHANGED <<imageUrl, isLoadingCorrection, isLoadingSolution>>

\* reader.onload: reject what is no image data URI, otherwise triggerOcr.
readerOnLoad(img, result) ==
    /\ img \in readers
    /\ readers' = readers \ {img}
    /\ lastEvent' = "readerOnLoad"
    /\ lastReturn' = NoReturn
    /\ IF ~Truthy(result) \/ ~StartsWith(result, DATA_IMAGE)
       THEN /\ error' = <<"Failed to process the image file.">>
            /\ imageUrl' = NoImage
            /\ svcCalled' = {}
            /\ UNCHANGED <<preprocessedImageUrl, ocrFullText, ocrExpression,
                           correctedFullText, correctedExpression, solution,
                           isLoadingOcr, isLoadingCorrection, isLoadingSolution,
                           ocrCalls, solvedFrom>>
       ELSE triggerOcrStart(img, result)
    /\ UNCHANGED <<corrCalls, solveCalls, uploads, stageVars>>

\* reader.onerror
readerOnError(img) ==
    /\ img \in readers
    /\ readers' = readers \ {img}
    /\ lastEvent' = "readerOnError"
    /\ lastReturn' = NoReturn
    /\ error' = <<"Failed to read the uploaded image file.">>
    /\ imageUrl' = NoImage
    /\ svcCalled' = {}
    /\ UNCHANGED <<preprocessedImageUrl, ocrFullText, ocrExpression,
                   correctedFullText, correctedExpression, solution,
                   isLoadingOcr, isLoadingCorrection, isLoadingSolution,
                   ocrCalls, corrCalls, solveCalls, uploads, solvedFrom, stageVars>>

\* The outcomes a call of extractMathText can have for the component.
OcrRpcs(call) ==
    {Rpc("throw", ErrNetwork, NullResult), Rpc("throw", ErrNotError, NullResult),
     Rpc("invalid", NoThrow, NullResult)}
    \cup {Rpc("ok", NoThrow,
              extractMathText(call.uri, preprocessImageForOcr(call.uri), v)) :
          v \in VisionOutcomes}

\* "OCR failed: <displayError>. Details: <fullText>. ..."
OcrFailedError(fullText) ==
    LET displayError ==
            IF StartsWith(fullText, "API_") THEN "API Error"
            ELSE IF StartsWith(fullText, "PREPROCESSING") THEN "Preprocessing Error"
            ELSE IF fullText = OCR_BLOCKED_BY_SAFETY THEN "Blocked by Safety Filters"
            ELSE "OCR Processing Error"
    IN  <<"OCR failed: ", displayError, ". Details: ">> \o fullText

\* The rest of triggerOcr: what try, catch and finally do with the result of
\* extractMathText.
triggerOcrResult(call, rpc) ==
    /\ call \in ocrCalls
    /\ ocrCalls' = ocrCalls \ {call}
    /\ lastEvent' = "ocrReturn"
    /\ lastReturn' = [call |-> call, rpc |-> rpc]
    /\ isLoadingOcr' = FALSE
    /\ CASE rpc.kind = "throw" ->
              /\ error' = <<"OCR Process Error: Failed to communicate with AI (">>
                          \o CaughtMessage(rpc.err)
              /\ ocrFullText' = OCR_PROCESSING_ERROR
              /\ correctedFullText' = Empty
              /\ correctedExpression' = Null
              /\ UNCHANGED <<preprocessedImageUrl, ocrExpression>>
         [] rpc.kind = "invalid" ->
              /\ preprocessedImageUrl' = call.uri
              /\ ocrFullText' = OCR_PROCESSING_ERROR
              /\ error' = <<"An unexpected issue occurred during OCR processing (invalid response).">>
              /\ UNCHANGED <<ocrExpression, correctedFullText, correctedExpression>>
         [] OTHER ->
              LET ocrResult == rpc.result
                  fullText == ocrResult.fullText
                  expression == TrimOrNull(ocrResult.extractedExpression)
              IN  /\ preprocessedImageUrl' =
                        IF Truthy(ocrResult.preprocessedImageUri)
                        THEN ocrResult.preprocessedImageUri ELSE call.uri
                  /\ ocrFullText' = fullText
                  /\ ocrExpression' = expression
                  /\ IF fullText = NO_TEXT_FOUND
                     THEN /\ correctedFullText' = Empty
                          /\ correctedExpression' = Null
                          /\ UNCHANGED error
                     ELSE IF fullText \in BYPASS_ALL_PROCESSING_MESSAGES
                     THEN /\ error' = OcrFailedError(fullText)
                          /\ correctedFullText' = Empty
                          /\ correctedExpression' = Null
                     ELSE /\ correctedFullText' = fullText
                          /\ correctedExpression' = expression
                          /\ UNCHANGED error
    /\ UNCHANGED <<imageUrl, solution, isLoadingSolution,
                   readers, solveCalls, uploads, solvedFrom, stageVars>>

\* A triggerOcr that goes on to the correction by itself when the extraction
\* gave valid content.
ocrReturn_ThenCorrection(call, rpc) ==
    /\ triggerOcrResult(call, rpc)
    /\ IF rpc.kind = "ok" /\ IsValidContent(rpc.result.fullText)
       THEN /\ isLoadingCorrection' = TRUE
            /\ corrCalls' = corrCalls \cup
                 {[img |-> imageUrl, text |-> rpc.result.fullText,
                   expr |-> TrimOrNull(rpc.result.extractedExpression)]}
            /\ svcCalled' = {"correction"}
       ELSE /\ svcCalled' = {}
            /\ UNCHANGED <<isLoadingCorrection, corrCalls>>

\* The result of extractMathText arrives: triggerOcr handles it and starts
\* nothing else.
ocrReturn(call, rpc) ==
    /\ triggerOcrResult(call, rpc)
    /\ svcCalled' = {}
    /\ UNCHANGED <<isLoadingCorrection, corrCalls>>

\* handleAiCorrection up to the call of fixOcrErrors (the "Correct with AI"
\* button, enabled when canCorrect and not isProcessing).
handleAiCorrection ==
    /\ canCorrect /\ ~isProcessing
    /\ lastEvent' = "handleAiCorrection"
    /\ lastReturn' = NoReturn
    /\ IF ~Truthy(correctedFullText)
       THEN /\ svcCalled' = {}
            /\ UNCHANGED <<isLoadingCorrection, error, solution, corrCalls, solvedFrom>>
       ELSE /\ isLoadingCorrection' = TRUE
            /\ error' = Null
            /\ solution' = Empty
            /\ solvedFrom' = Empty
            /\ corrCalls' = corrCalls \cup
                 {[img |-> imageUrl, text |-> correctedFullText, expr |-> correctedExpression]}
            /\ svcCalled' =
                 IF fixOcrErrors(correctedFullText, correctedExpression,
                                 CorrThrow(ErrNetwork)).calls > 0
                 THEN {"correction"} ELSE {}
    /\ UNCHANGED <<imageUrl, preprocessedImageUrl, ocrFullText, ocrExpression,
                   correctedFullText, correctedExpression,
                   isLoadingOcr, isLoadingSolution,
                   readers, ocrCalls, solveCalls, uploads, stageVars>>

\* The outcomes a call of fixOcrErrors can have for the component.
CorrRpcs(call) ==
    {Rpc("throw", ErrNetwork, NullResult), Rpc("invalid", NoThrow, NullResult)}
    \cup {Rpc("ok", NoThrow, fixOcrErrors(call.text, call.expr, c)) : c \in CorrOutcomes}

\* A variant: a failed correction puts the raw OCR text and expression back
\* into the corrected fields.
handleAiCorrectionResult_RevertsOnFailure(call, rpc) ==
    /\ call \in corrCalls
    /\ corrCalls' = corrCalls \ {call}
    /\ lastEvent' = "correctionReturn"
    /\ lastReturn' = [call |-> call, rpc |-> rpc]
    /\ isLoadingCorrection' = FALSE
    /\ CASE rpc.kind = "throw" ->
              /\ error' = <<"AI Correction Error: Failed to communicate with AI (">>
                          \o CaughtMessage(rpc.err)
              /\ correctedFullText' = ocrFullText
              /\ correctedExpression' = ocrExpression
         [] rpc.kind = "invalid" ->
              /\ correctedFullText' = ocrFullText
              /\ correctedExpression' = ocrExpression
              /\ UNCHANGED error
         [] OTHER ->
              /\ correctedFullText' = rpc.result.correctedText
              /\ correctedExpression' = TrimOrNull(rpc.result.correctedExpression)
              /\ UNCHANGED error
    /\ UNCHANGED <<imageUrl, preprocessedImageUrl, ocrFullText, ocrExpression,
                   solution, isLoadingOcr,
                   readers, ocrCalls, uploads, solvedFrom, stageVars>>

\* The rest of handleAiCorrection: what try, catch and finally do with the
\* result of fixOcrErrors.
handleAiCorrectionResult(call, rpc) ==
    /\ call \in corrCalls
    /\ corrCalls' = corrCalls \ {call}
    /\ lastEvent' = "correctionReturn"
    /\ lastReturn' = [call |-> call, rpc |-> rpc]
    /\ isLoadingCorrection' = FALSE
    /\ CASE rpc.kind = "throw" ->
              /\ error' = <<"AI Correction Error: Failed to communicate with AI (">>
                          \o CaughtMessage(rpc.err)
              /\ UNCHANGED <<correctedFullText, correctedExpression>>
         [] rpc.kind = "invalid" ->
              UNCHANGED <<error, correctedFullText, correctedExpression>>
         [] OTHER ->
              /\ correctedFullText' = rpc.result.correctedText
              /\ correctedExpression' = TrimOrNull(rpc.result.correctedExpression)
              /\ UNCHANGED error
    /\ UNCHANGED <<imageUrl, preprocessedImageUrl, ocrFullText, ocrExpression,
                   solution, isLoadingOcr,
                   readers, ocrCalls, uploads, solvedFrom, stageVars>>

\* A handleAiCorrection that goes on to the solver by itself when the
\* correction gave a result.
correctionReturn_ThenSolve(call, rpc) ==
    /\ handleAiCorrectionResult(call, rpc)
    /\ IF rpc.kind = "ok" /\ Trim(rpc.result.correctedText) # Empty
       THEN /\ isLoadingSolution' = TRUE
            /\ solveCalls' = solveCalls \cup
                 {[img |-> imageUrl, from |-> rpc.result.correctedText,
                   context |-> Trim(rpc.result.correctedText),
                   expr |-> TrimOrNull(rpc.result.correctedExpression)]}
            /\ svcCalled' = {"solver"}
       ELSE /\ svcCalled' = {}
            /\ UNCHANGED <<isLoadingSolution, solveCalls>>

\* The result of fixOcrErrors arrives: handleAiCorrection handles it and
\* starts nothing else.
correctionReturn(call, rpc) ==
    /\ handleAiCorrectionResult(call, rpc)
    /\ svcCalled' = {}
    /\ UNCHANGED <<isLoadingSolution, solveCalls>>

\* handleSolve up to the call of solveMathExpression (the "Solve Problem"
\* button, enabled when canSolve and not isProcessing).
handleSolve ==
    /\ canSolve /\ ~isProcessing
    /\ lastEvent' = "handleSolve"
    /\ lastReturn' = NoReturn
    /\ LET context == Trim(correctedFullText)
           expression == TrimOrNull(correctedExpression)
       IN  IF ocrFullText \in BYPASS_ALL_PROCESSING_MESSAGES
           THEN /\ solution' = <<MATH_AI_ERROR_PREFIX,
                                 " Cannot solve because the initial text extraction failed (">>
                               \o ocrFullText
                /\ solvedFrom' = correctedFullText
                /\ svcCalled' = {}
                /\ UNCHANGED <<isLoadingSolution, error, solveCalls>>
           ELSE IF ~Truthy(context)
           THEN /\ solution' = <<MATH_AI_ERROR_PREFIX,
                                 " Cannot solve because the text context is empty.">>
                /\ solvedFrom' = correctedFullText
                /\ svcCalled' = {}
                /\ UNCHANGED <<isLoadingSolution, error, solveCalls>>
           ELSE /\ isLoadingSolution' = TRUE
                /\ error' = Null
                /\ solution' = Empty
                /\ solvedFrom' = Empty
                /\ solveCalls' = solveCalls \cup
                     {[img |-> imageUrl, from |-> correctedFullText,
                       context |-> context, expr |-> expression]}
                /\ svcCalled' =
                     IF solveMathExpression(context, expression,
                                            SolverThrow(ErrNetwork)).calls > 0
                     THEN {"solver"} ELSE {}
    /\ UNCHANGED <<imageUrl, preprocessedImageUrl, ocrFullText, ocrExpression,
                   correctedFullText, correctedExpression,
                   isLoadingOcr, isLoadingCorrection,
                   readers, ocrCalls, corrCalls, uploads, stageVars>>

\* The outcomes a call of solveMathExpression can have for the component.
SolveRpcs(call) ==
    {Rpc("throw", ErrNetwork, NullResult), Rpc("invalid", NoThrow, NullResult)}
    \cup {Rpc("ok", NoThrow, solveMathExpression(call.context, call.expr, s)) :
          s \in SolverOutcomes}

\* A variant: only the error prefix is looked at.
SolutionKind_ErrorOnly(sol) ==
    IF StartsWith(sol, MATH_AI_ERROR_PREFIX) THEN "Error" ELSE "Success"

\* isErrorSolution / isConclusion: the kind of a solution string, from its
\* prefix.
SolutionKind(sol) ==
    LET isErrorSolution == StartsWith(sol, MATH_AI_ERROR_PREFIX)
        isConclusion == StartsWith(sol, MATH_AI_CONCLUSION_PREFIX)
    IN  IF isErrorSolution THEN "Error"
        ELSE IF isConclusion THEN "Conclusion" ELSE "Success"

\* The title of the toast handleSolve shows for the result.
SolveToast(rpc) ==
    CASE rpc.kind = "throw" -> "Solving Call Failed"
      [] rpc.kind = "invalid" -> "Solving Error"
      [] OTHER ->
           LET kind == SolutionKind(rpc.result.solution)
           IN  IF kind = "Error" THEN "Solver Issue"
               ELSE IF kind = "Conclusion" THEN "Solver Conclusion"
               ELSE "Solution Generated"

\* A variant: the flag is lowered at the end of the try block and not in a
\* finally block, so a call that throws leaves it raised.
solveReturn_NoFinally(call, rpc) ==
    /\ call \in solveCalls
    /\ solveCalls' = solveCalls \ {call}
    /\ lastEvent' = "solveReturn"
    /\ lastReturn' = [call |-> call, rpc |-> rpc, toast |-> SolveToast(rpc)]
    /\ svcCalled' = {}
    /\ isLoadingSolution' = (rpc.kind = "throw")
    /\ solvedFrom' = call.from
    /\ CASE rpc.kind = "throw" ->
              /\ error' = <<"Solver", " Process Error: Failed to communicate with AI (">>
                          \o CaughtMessage(rpc.err)
              /\ solution' = <<MATH_AI_ERROR_PREFIX,
                               " Unexpected error: Failed to reach AI solving service.">>
         [] rpc.kind = "invalid" ->
              /\ error' = <<"Solver", " Error: Invalid response from service.">>
              /\ solution' = <<MATH_AI_ERROR_PREFIX, " Solver error (invalid response).">>
         [] OTHER ->
              /\ solution' = rpc.result.solution
              /\ UNCHANGED error
    /\ UNCHANGED <<imageUrl, preprocessedImageUrl, ocrFullText, ocrExpression,
                   correctedFullText, correctedExpression,
                   isLoadingOcr, isLoadingCorrection,
                   readers, ocrCalls, corrCalls, uploads, stageVars>>

\* The rest of handleSolve: the result of solveMathExpression arrives.
solveReturn(call, rpc) ==
    /\ call \in solveCalls
    /\ solveCalls' = solveCalls \ {call}
    /\ lastEvent' = "solveReturn"
    /\ lastReturn' = [call |-> call, rpc |-> rpc, toast |-> SolveToast(rpc)]
    /\ svcCalled' = {}
    /\ isLoadingSolution' = FALSE
    /\ solvedFrom' = call.from
    /\ CASE rpc.kind = "throw" ->
              /\ error' = <<"Solver", " Process Error: Failed to communicate with AI (">>
                          \o CaughtMessage(rpc.err)
              /\ solution' = <<MATH_AI_ERROR_PREFIX,
                               " Unexpected error: Failed to reach AI solving service.">>
         [] rpc.kind = "invalid" ->
              /\ error' = <<"Solver", " Error: Invalid response from service.">>
              /\ solution' = <<MATH_AI_ERROR_PREFIX, " Solver error (invalid response).">>
         [] OTHER ->
              /\ solution' = rpc.result.solution
              /\ UNCHANGED error
    /\ UNCHANGED <<imageUrl, preprocessedImageUrl, ocrFullText, ocrExpression,
                   correctedFullText, correctedExpression,
                   isLoadingOcr, isLoadingCorrection,
                   readers, ocrCalls, corrCalls, uploads, stageVars>>

\* A variant: an edit of the corrected text sends it to the correction again.
handleTextChange_Recorrects(name, value) ==
    /\ ~isProcessing /\ hasValidOcrText
    /\ lastEvent' = "handleTextChange"
    /\ lastReturn' = NoReturn
    /\ IF name = "correctedFullText"
       THEN /\ correctedFullText' = value
            /\ isLoadingCorrection' = TRUE
            /\ corrCalls' = corrCalls \cup
                 {[img |-> imageUrl, text |-> value, expr |-> correctedExpression]}
            /\ svcCalled' = {"correction"}
            /\ UNCHANGED correctedExpression
       ELSE /\ correctedExpression' = (IF Trim(value) = Empty THEN Null ELSE value)
            /\ svcCalled' = {}
            /\ UNCHANGED <<correctedFullText, isLoadingCorrection, corrCalls>>
    /\ solution' = Empty
    /\ solvedFrom' = Empty
    /\ error' = IF IsSolverError(error) THEN Null ELSE error
    /\ UNCHANGED <<imageUrl, preprocessedImageUrl, ocrFullText, ocrExpression,
                   isLoadingOcr, isLoadingSolution,
                   readers, ocrCalls, solveCalls, uploads, stageVars>>

\* A variant: the expression field stores what was typed, a blank too.
handleTextChange_KeepsBlank(name, value) ==
    /\ ~isProcessing /\ hasValidOcrText
    /\ lastEvent' = "handleTextChange"
    /\ lastReturn' = NoReturn
    /\ svcCalled' = {}
    /\ IF name = "correctedFullText"
       THEN correctedFullText' = value /\ UNCHANGED correctedExpression
       ELSE correctedExpression' = value /\ UNCHANGED correctedFullText
    /\ solution' = Empty
    /\ solvedFrom' = Empty
    /\ error' = IF IsSolverError(error) THEN Null ELSE error
    /\ UNCHANGED <<imageUrl, preprocessedImageUrl, ocrFullText, ocrExpression,
                   isLoadingOcr, isLoadingCorrection, isLoadingSolution,
                   flightVars, uploads, stageVars>>

\* handleTextChange (both fields are disabled while isProcessing or without
\* valid OCR text).
handleTextChange(name, value) ==
    /\ ~isProcessing /\ hasValidOcrText
    /\ lastEvent' = "handleTextChange"
    /\ lastReturn' = NoReturn
    /\ svcCalled' = {}
    /\ IF name = "correctedFullText"
       THEN correctedFullText' = value /\ UNCHANGED correctedExpression
       ELSE /\ correctedExpression' = (IF Trim(value) = Empty THEN Null ELSE value)
            /\ UNCHANGED correctedFullText
    /\ solution' = Empty
    /\ solvedFrom' = Empty
    /\ error' = IF IsSolverError(error) THEN Null ELSE error
    /\ UNCHANGED <<imageUrl, preprocessedImageUrl, ocrFullText, ocrExpression,
                   isLoadingOcr, isLoadingCorrection, isLoadingSolution,
                   flightVars, uploads, stageVars>>

\* performClearAll (the "Clear All" button is disabled while isProcessing).
performClearAll ==
    /\ ~isProcessing
    /\ lastEvent' = "performClearAll"
    /\ lastReturn' = NoReturn
    /\ svcCalled' = {}
    /\ imageUrl' = NoImage
    /\ preprocessedImageUrl' = Null
    /\ ocrFullText' = Empty
    /\ ocrExpression' = Null
    /\ correctedFullText' = Empty
    /\ correctedExpression' = Null
    /\ solution' = Empty
    /\ solvedFrom' = Empty
    /\ error' = Null
    /\ isLoadingOcr' = FALSE
    /\ isLoadingCorrection' = FALSE
    /\ isLoadingSolution' = FALSE
    /\ UNCHANGED <<flightVars, uploads, stageVars>>

Next ==
    \/ handleImageUpload
    \/ \E img \in readers : \E result \in ReaderResults : readerOnLoad(img, result)
    \/ \E img \in readers : readerOnError(img)
    \/ \E call \in ocrCalls : \E rpc \in OcrRpcs(call) : ocrReturn(call, rpc)
    \/ handleAiCorrection
    \/ \E call \in corrCalls : \E rpc \in CorrRpcs(call) : correctionReturn(call, rpc)
    \/ handleSolve
    \/ \E call \in solveCalls : \E rpc \in SolveRpcs(call) : solveReturn(call, rpc)
    \/ \E name \in {"correctedFullText", "correctedExpression"} :
         \E value \in (IF name = "correctedFullText" THEN EditTexts ELSE EditExpressions) :
           handleTextChange(name, value)
    \/ performClearAll

Spec == Init /\ [][Next]_vars

\* Every call of a server action settles: the promise awaited by triggerOcr,
\* handleAiCorrection or handleSolve is eventually resolved or rejected
\* (the step that handles it takes the call out of the calls in flight).
ServiceCallsSettle ==
    /\ WF_flightVars(\E call \in ocrCalls : \E rpc \in OcrRpcs(call) : ocrReturn(call, rpc))
    /\ WF_flightVars(\E call \in corrCalls : \E rpc \in CorrRpcs(call) : correctionReturn(call, rpc))
    /\ WF_flightVars(\E call \in solveCalls : \E rpc \in SolveRpcs(call) : solveReturn(call, rpc))

\* The number of images uploaded in a behaviour checked for liveness.
MaxLiveUploads == 1

\* The steps of the component, with the uploads capped by MaxLiveUploads.
LiveNext ==
    \/ uploads < MaxLiveUploads /\ handleImageUpload
    \/ \E img \in readers : \E result \in ReaderResults : readerOnLoad(img, result)
    \/ \E img \in readers : readerOnError(img)
    \/ \E call \in ocrCalls : \E rpc \in OcrRpcs(call) : ocrReturn(call, rpc)
    \/ handleAiCorrection
    \/ \E call \in corrCalls : \E rpc \in CorrRpcs(call) : correctionReturn(call, rpc)
    \/ handleSolve
    \/ \E call \in solveCalls : \E rpc \in SolveRpcs(call) : solveReturn(call, rpc)
    \/ \E name \in {"correctedFullText", "correctedExpression"} :
         \E value \in (IF name = "correctedFullText" THEN EditTexts ELSE EditExpressions) :
           handleTextChange(name, value)
    \/ performClearAll

\* The component with service calls that settle.
LiveSpec == Init /\ [][LiveNext]_vars /\ ServiceCallsSettle

-----------------------------------------------------------------------------
(* The stage functions applied in isolation: one input drawn from bounded  *)
(* sets, one application.                                                  *)

\* Longest text (in tokens) given to a stage function.
MaxTextLen == 2

SeqsUpTo(A, n) == UNION {[1..k -> A] : k \in 0..n}

\* '' and every text of at most MaxTextLen whitespace and content tokens.
PlainTexts == SeqsUpTo({WS, "x"}, MaxTextLen)

StageTexts == PlainTexts \cup StatusMarkers \cup {<<"no_text_found">>, Null, Undefined}

StageExpressions ==
    {Null, Undefined, Empty, <<WS>>, <<"e">>, <<WS, "e">>,
     NO_TEXT_FOUND, OCR_PROCESSING_ERROR, API_ERROR_QUOTA}

StageUris == {ValidUri, <<"data:text/", "plain">>, <<"x">>, Empty, Null, Undefined}

\* The collaborator as it is (the placeholder), one that fails, one that
\* transforms the image.
StagePreOutcomes(uri) ==
    {preprocessImageForOcr(uri), PreOutcome(TRUE, Undefined),
     PreOutcome(FALSE, <<DATA_IMAGE, "preprocessed">>)}

StageVisionOutcomes ==
    {VisionThrow(e) : e \in {ErrNetwork, ErrKey, ErrQuota, ErrNotError,
                            Thrown(TRUE, <<"403: ", "permission denied">>),
                            Thrown(TRUE, <<"quota", "permission denied">>),
                            Thrown(TRUE, <<"QUOTA">>),
                            Thrown(FALSE, <<"quota">>)}}
    \cup {VisionResponse(TRUE, FALSE, "STOP", FALSE, Undefined, Undefined)}
    \cup {VisionResponse(FALSE, FALSE, f, FALSE, Undefined, Undefined) :
          f \in {"STOP", "SAFETY"}}
    \cup {VisionResponse(FALSE, TRUE, f, FALSE, Undefined, Undefined) :
          f \in {"STOP", "SAFETY"}}
    \cup {VisionResponse(FALSE, TRUE, f, TRUE, t, e) :
          f \in {"STOP", "SAFETY", "MAX_TOKENS"},
          t \in PlainTexts \cup {Null, Undefined, NO_TEXT_FOUND, <<"no_text_found">>,
                                 <<WS, "No_Text_Found">>, OCR_PROCESSING_ERROR},
          e \in {Null, Undefined, Empty, <<WS>>, <<WS, "e">>}}

StageCorrOutcomes ==
    {CorrThrow(ErrNetwork), CorrThrow(ErrNotError),
     CorrResponse(FALSE, Undefined, Undefined)}
    \cup {CorrResponse(TRUE, t, e) :
          t \in PlainTexts \cup {<<WS, "y", WS>>, NO_TEXT_FOUND, Null, Undefined},
          e \in {Null, Undefined, Empty, <<WS>>, <<WS, "e">>}}

StageSolverOutcomes ==
    {SolverThrow(ErrNetwork), SolverThrow(ErrNotError),
     SolverResponse(FALSE, Undefined)}
    \cup {SolverResponse(TRUE, sol) :
          sol \in {<<"42">>, Empty, Null, Undefined,
                   <<MATH_AI_ERROR_PREFIX, " invalid problem">>,
                   <<MATH_AI_CONCLUSION_PREFIX, " no real solution">>}}

StageInput(fn, text, expr, uri, pre, svc) ==
    [fn |-> fn, text |-> text, expr |-> expr, uri |-> uri, pre |-> pre, svc |-> svc]

StageInputs ==
    {StageInput("extract", Null, Null, u, p, v) :
       u \in StageUris, p \in UNION {StagePreOutcomes(w) : w \in StageUris},
       v \in StageVisionOutcomes}
    \cup {StageInput("correct", t, e, Null, NoThrow, c) :
            t \in StageTexts, e \in StageExpressions, c \in StageCorrOutcomes}
    \cup {StageInput("solve", t, e, Null, NoThrow, sv) :
            t \in StageTexts, e \in StageExpressions, sv \in StageSolverOutcomes}

StageInit ==
    /\ imageUrl = NoImage
    /\ preprocessedImageUrl = Null
    /\ ocrFullText = Empty
    /\ ocrExpression = Null
    /\ correctedFullText = Empty
    /\ correctedExpression = Null
    /\ solution = Empty
    /\ isLoadingOcr = FALSE
    /\ isLoadingCorrection = FALSE
    /\ isLoadingSolution = FALSE
    /\ error = Null
    /\ readers = {}
    /\ ocrCalls = {}
    /\ corrCalls = {}
    /\ solveCalls = {}
    /\ uploads = 0
    /\ lastEvent = "init"
    /\ svcCalled = {}
    /\ solvedFrom = Empty
    /\ lastReturn = NoReturn
    /\ stageIn \in StageInputs
    /\ stageOut = [done |-> FALSE, res |-> Null, again |-> FALSE, res2 |-> Null]

ApplyExtract ==
    /\ stageIn.fn = "extract" /\ ~stageOut.done
    /\ stageOut' = [done |-> TRUE,
                    res |-> extractMathText(stageIn.uri, stageIn.pre, stageIn.svc),
                    again |-> FALSE, res2 |-> Null]
    /\ UNCHANGED <<stageIn, ctlVars, flightVars, histVars>>

ApplyCorrect ==
    /\ stageIn.fn = "correct" /\ ~stageOut.done
    /\ stageOut' = [done |-> TRUE,
                    res |-> fixOcrErrors(stageIn.text, stageIn.expr, stageIn.svc),
                    again |-> FALSE, res2 |-> Null]
    /\ UNCHANGED <<stageIn, ctlVars, flightVars, histVars>>

ApplySolve ==
    /\ stageIn.fn = "solve" /\ ~stageOut.done
    /\ stageOut' = [done |-> TRUE,
                    res |-> solveMathExpression(stageIn.text, stageIn.expr, stageIn.svc),
                    again |-> FALSE, res2 |-> Null]
    /\ UNCHANGED <<stageIn, ctlVars, flightVars, histVars>>

\* fixOcrErrors applied to the output of the previous fixOcrErrors, with a
\* correction service that returns the text and expression it is given.
ApplyCorrectAgain ==
    /\ stageIn.fn = "correct" /\ stageOut.done /\ ~stageOut.again
    /\ LET prev == stageOut.res
           echo == CorrResponse(TRUE, prev.correctedText, prev.correctedExpression)
       IN  stageOut' = [stageOut EXCEPT
                          !.again = TRUE,
                          !.res2 = fixOcrErrors(prev.correctedText,
                                                prev.correctedExpression, echo)]
    /\ UNCHANGED <<stageIn, ctlVars, flightVars, histVars>>

StageNext == ApplyExtract \/ ApplyCorrect \/ ApplySolve \/ ApplyCorrectAgain

StageSpec == StageInit /\ [][StageNext]_vars

-----------------------------------------------------------------------------
(* Claims about the stage functions (checked under StageSpec) *)

Applied(fn) == stageIn.fn = fn /\ stageOut.done

\* C2: for every text context that is empty or equal to one of the seven
\* status markers, solve makes no solver-service call and returns a solution
\* that begins with the reserved prefix **Error:**.
C2_SolveShortCircuitsOnEveryMarker ==
    (Applied("solve") /\ (stageIn.text = Empty \/ stageIn.text \in StatusMarkers))
    => /\ stageOut.res.calls = 0
       /\ StartsWith(stageOut.res.solution, MATH_AI_ERROR_PREFIX)

\* C3: for every valid fullText and every expression, when the correction
\* service call raises an error or returns a structurally invalid response
\* (no output, or a correctedText that is no string), correct returns
\* correctedText equal to the input fullText and correctedExpression equal
\* to the input expression.
C3_CorrectionFailureFallsBack ==
    (/\ Applied("correct")
     /\ IsValidContent(stageIn.text)
     /\ \/ stageIn.svc.throws
        \/ ~stageIn.svc.hasOutput
        \/ stageIn.svc.correctedText \in {Null, Undefined})
    => /\ stageOut.res.correctedText = stageIn.text
       /\ stageOut.res.correctedExpression = stageIn.expr

\* C3 witness: a correction of valid text with a real expression whose
\* service call threw has been applied.
C3_Witness ==
    /\ Applied("correct")
    /\ stageIn.text = <<"x", WS>>
    /\ stageIn.expr = <<WS, "e">>
    /\ stageIn.svc.throws
    /\ stageOut.res.calls = 1

\* C4: when the fullText given to correct is absent, empty or a status
\* marker, correct makes no correction-service call and returns
\* correctedText equal to the input text and a null correctedExpression,
\* whatever expression was passed in.
C4_CorrectionBypass ==
    (/\ Applied("correct")
     /\ stageIn.text \in {Null, Undefined, Empty} \cup StatusMarkers)
    => /\ stageOut.res.calls = 0
       /\ stageOut.res.correctedText = stageIn.text
       /\ stageOut.res.correctedExpression = Null

\* C4 witness: correct has been applied to a marker other than the two the
\* solve flow knows, with a real expression and a service that would have
\* answered.
C4_Witness ==
    /\ Applied("correct")
    /\ stageIn.text = API_ERROR_QUOTA
    /\ stageIn.expr = <<"e">>
    /\ ~stageIn.svc.throws /\ stageIn.svc.hasOutput
    /\ stageOut.res.correctedText = API_ERROR_QUOTA

\* C10: when the image passed to extract is missing or does not start with
\* 'data:image/', extract returns fullText = OCR_PROCESSING_ERROR without
\* calling the preprocessing collaborator or the vision service.
C10_InvalidImageFailsFast ==
    (/\ Applied("extract")
     /\ \/ stageIn.uri \in {Null, Undefined, Empty}
        \/ Head(stageIn.uri) # DATA_IMAGE)
    => /\ stageOut.res.fullText = OCR_PROCESSING_ERROR
       /\ stageOut.res.preCalls = 0
       /\ stageOut.res.visionCalls = 0

\* C10 witness: extract has been applied to a data URI of another media
\* type, with a collaborator and a vision service that would both succeed.
C10_Witness ==
    /\ Applied("extract")
    /\ stageIn.uri = <<"data:text/", "plain">>
    /\ ~stageIn.pre.throws
    /\ stageIn.svc = VisionText(<<"x">>, Null)
    /\ stageOut.res.fullText = OCR_PROCESSING_ERROR

\* The image given to extract passes the validation of extractMathText.
StageImageValid == Truthy(stageIn.uri) /\ StartsWith(stageIn.uri, DATA_IMAGE)

\* C11: whenever the preprocessing collaborator fails, extract returns
\* fullText = PREPROCESSING_ERROR for the whole stage and does not call the
\* vision service, whatever the vision service would have answered.
C11_PreprocessingFailureEndsExtract ==
    (Applied("extract") /\ StageImageValid /\ stageIn.pre.throws)
    => /\ stageOut.res.fullText = PREPROCESSING_ERROR
       /\ stageOut.res.extractedExpression = Null
       /\ stageOut.res.preCalls = 1
       /\ stageOut.res.visionCalls = 0

\* C11 witness: extract has been applied to a valid image whose
\* preprocessing failed while the vision service would have returned text.
C11_Witness ==
    /\ Applied("extract")
    /\ stageIn.uri = ValidUri
    /\ stageIn.pre.throws
    /\ stageIn.svc = VisionText(<<"x">>, Null)
    /\ stageOut.res.fullText = PREPROCESSING_ERROR

\* C12: each invocation of extract calls the vision service at most once,
\* and exactly once when the image passes validation and preprocessing,
\* whatever the outcome of that call (error, malformed response, safety
\* block).
C12_VisionCalledAtMostOnce ==
    Applied("extract")
    => /\ stageOut.res.visionCalls \in {0, 1}
       /\ (StageImageValid /\ ~stageIn.pre.throws) <=> (stageOut.res.visionCalls = 1)

\* C12 witness: extract has been applied to a valid, preprocessed image and
\* the one vision call threw.
C12_Witness ==
    /\ Applied("extract")
    /\ stageIn.uri = ValidUri
    /\ ~stageIn.pre.throws
    /\ stageIn.svc = VisionThrow(ErrNetwork)
    /\ stageOut.res.visionCalls = 1
    /\ stageOut.res.fullText = API_GENERAL_ERROR

\* The vision service was called for the image given to extract.
VisionCalled == Applied("extract") /\ StageImageValid /\ ~stageIn.pre.throws

\* The vision service answered with a text: a response with an output whose
\* fullText is a string, not blocked for safety.
VisionGaveText ==
    /\ VisionCalled
    /\ ~stageIn.svc.throws /\ ~stageIn.svc.isNull /\ stageIn.svc.hasOutput
    /\ stageIn.svc.finishReason # "SAFETY"
    /\ stageIn.svc.hasFullText /\ IsString(stageIn.svc.fullText)

\* The no-text marker in the letter cases the service answers with.
NoTextAnyCase == {<<"NO_TEXT_FOUND">>, <<"no_text_found">>, <<"No_Text_Found">>}

\* C13: for every text response of the vision service, extract trims the
\* surrounding whitespace and returns fullText = NO_TEXT_FOUND with no
\* expression when the trimmed text is empty or is the no-text marker in any
\* letter case; otherwise it returns the trimmed text.
C13_ExtractNormalisesText ==
    VisionGaveText
    => LET trimmed == Trim(stageIn.svc.fullText)
       IN  IF trimmed = Empty \/ trimmed \in NoTextAnyCase
           THEN /\ stageOut.res.fullText = NO_TEXT_FOUND
                /\ stageOut.res.extractedExpression = Null
           ELSE stageOut.res.fullText = trimmed

\* C13 witness: the service answered the marker in mixed case with leading
\* whitespace and an expression, and extract returned NO_TEXT_FOUND.
C13_Witness ==
    /\ VisionGaveText
    /\ stageIn.svc.fullText = <<WS, "No_Text_Found">>
    /\ stageIn.svc.extractedExpression = <<WS, "e">>
    /\ stageOut.res.fullText = NO_TEXT_FOUND

\* C14 as stated: whenever the response of the vision service is missing or
\* malformed (no response, no output, no fullText field, or a null
\* fullText), extract returns fullText = OCR_PROCESSING_ERROR.
C14_MalformedResponseIsProcessingError ==
    (/\ VisionCalled /\ ~stageIn.svc.throws
     /\ \/ stageIn.svc.isNull
        \/ ~stageIn.svc.hasOutput
        \/ ~stageIn.svc.hasFullText
        \/ stageIn.svc.fullText = Null)
    => stageOut.res.fullText = OCR_PROCESSING_ERROR

\* C14 amended: extract returns OCR_PROCESSING_ERROR when there is no
\* response or no output, and when the output of a response not blocked for
\* safety has no fullText field; an output of such a response whose fullText
\* is null or undefined is read as NO_TEXT_FOUND.
C14_MissingStructureIsProcessingError ==
    (VisionCalled /\ ~stageIn.svc.throws)
    => /\ (stageIn.svc.isNull \/ ~stageIn.svc.hasOutput)
            => stageOut.res.fullText = OCR_PROCESSING_ERROR
       /\ (/\ ~stageIn.svc.isNull /\ stageIn.svc.hasOutput
           /\ stageIn.svc.finishReason # "SAFETY")
            => /\ ~stageIn.svc.hasFullText
                    => stageOut.res.fullText = OCR_PROCESSING_ERROR
               /\ (stageIn.svc.hasFullText /\ ~IsString(stageIn.svc.fullText))
                    => stageOut.res.fullText = NO_TEXT_FOUND

\* C14 witness: the service answered an output whose fullText is null and
\* extract returned NO_TEXT_FOUND.
C14_Witness ==
    /\ VisionCalled /\ ~stageIn.svc.throws
    /\ stageIn.svc.hasOutput /\ stageIn.svc.hasFullText
    /\ stageIn.svc.finishReason = "STOP"
    /\ stageIn.svc.fullText = Null
    /\ stageOut.res.fullText = NO_TEXT_FOUND

\* The message of the thrown value carries a credential or permission
\* substring, a quota substring.
CarriesCredential(msg) ==
    \E i \in 1..Len(msg) : msg[i] \in {"API key not valid", "permission denied"}
CarriesQuota(msg) == \E i \in 1..Len(msg) : msg[i] \in {"quota", "Quota"}

\* C15: when the vision call fails with a transport error, extract returns
\* API_ERROR_INVALID_KEY if the error message carries a credential or
\* permission substring, otherwise API_ERROR_QUOTA if it carries a quota
\* substring, and API_GENERAL_ERROR for every other error.
C15_TransportErrorsAreClassified ==
    (VisionCalled /\ stageIn.svc.throws)
    => stageOut.res.fullText =
         IF CarriesCredential(stageIn.svc.err.message) THEN API_ERROR_INVALID_KEY
         ELSE IF CarriesQuota(stageIn.svc.err.message) THEN API_ERROR_QUOTA
         ELSE API_GENERAL_ERROR

\* C15 witness: the vision call threw a value that is no Error and whose
\* text carries the quota substring, and extract returned API_ERROR_QUOTA.
C15_Witness ==
    /\ VisionCalled
    /\ stageIn.svc = VisionThrow(Thrown(FALSE, <<"quota">>))
    /\ stageOut.res.fullText = API_ERROR_QUOTA

\* C16: whenever the vision service rejects the request for content safety,
\* extract returns fullText = OCR_BLOCKED_BY_SAFETY, whether or not the
\* rejected response carries an output.
C16_SafetyBlockIsReported ==
    (/\ VisionCalled /\ ~stageIn.svc.throws /\ ~stageIn.svc.isNull
     /\ stageIn.svc.finishReason = "SAFETY")
    => stageOut.res.fullText = OCR_BLOCKED_BY_SAFETY

\* The solver service was called by solve and the call threw.
SolverCallThrew ==
    /\ Applied("solve")
    /\ Truthy(stageIn.text) /\ stageIn.text \notin SOLVE_INVALID_MESSAGES
    /\ stageIn.svc.throws

\* The text of a solution after the reserved prefix and the fixed sentence.
FailureDescription(sol) == SubSeq(sol, 3, Len(sol))

\* C17 as stated: when the solver-service call fails at transport level,
\* solve returns a solution made of the reserved prefix **Error:** followed
\* by text that includes the description of the failure that was thrown.
C17_SolveErrorCarriesDescription ==
    SolverCallThrew
    => /\ StartsWith(stageOut.res.solution, MATH_AI_ERROR_PREFIX)
       /\ FailureDescription(stageOut.res.solution) = stageIn.svc.err.message

\* C17 amended: the solution is the reserved prefix followed by text that
\* includes the message of the failure when the thrown value is an Error,
\* and a fixed unknown-error text when it is anything else.
C17_SolveErrorCarriesMessageOfErrors ==
    SolverCallThrew
    => /\ stageOut.res.calls = 1
       /\ StartsWith(stageOut.res.solution, MATH_AI_ERROR_PREFIX)
       /\ FailureDescription(stageOut.res.solution) =
            IF stageIn.svc.err.isError
            THEN stageIn.svc.err.message
            ELSE <<"An unknown error occurred during solving.">>

\* C17 witness: the solver call threw an Error with the message
\* "fetch failed" and the solution carries the prefix and that message.
C17_Witness ==
    /\ SolverCallThrew
    /\ stageIn.svc = SolverThrow(ErrNetwork)
    /\ stageOut.res.solution =
         <<MATH_AI_ERROR_PREFIX,
           " An unexpected error occurred while trying to solve the problem: ",
           "fetch failed">>

\* The stage function returned a result to its caller.
Returned(res) == "thrown" \notin DOMAIN res

\* C18: none of the three stage functions propagates an exception to its
\* caller: every failure of the stage's external call is returned as a
\* value, a status marker from extract, the original input from correct, an
\* **Error:**-prefixed solution from solve.
C18_StagesNeverThrow ==
    /\ (Applied("extract") /\ StageImageValid /\ (stageIn.pre.throws \/ stageIn.svc.throws))
         => /\ Returned(stageOut.res)
            /\ stageOut.res.fullText \in StatusMarkers
    /\ (Applied("correct") /\ IsValidContent(stageIn.text) /\ stageIn.svc.throws)
         => /\ Returned(stageOut.res)
            /\ stageOut.res.correctedText = stageIn.text
            /\ stageOut.res.correctedExpression = stageIn.expr
    /\ SolverCallThrew
         => /\ Returned(stageOut.res)
            /\ StartsWith(stageOut.res.solution, MATH_AI_ERROR_PREFIX)

\* C18 witness: solve was called with a text that is a marker the solve flow
\* does not know, the solver call threw a value that is no Error, and solve
\* returned an **Error:** solution.
C18_Witness ==
    /\ SolverCallThrew
    /\ stageIn.text = API_ERROR_QUOTA
    /\ stageIn.svc = SolverThrow(ErrNotError)
    /\ Returned(stageOut.res)
    /\ StartsWith(stageOut.res.solution, MATH_AI_ERROR_PREFIX)

\* C20: idempotence of correct: when the correction service returns its
\* input unchanged (in the previous call as in this one), applying correct
\* to the output of the previous correct yields the same correctedText and
\* correctedExpression again.
C20_CorrectIsIdempotent ==
    (/\ Applied("correct") /\ stageOut.again
     /\ stageIn.svc = CorrResponse(TRUE, stageIn.text, stageIn.expr))
    => /\ stageOut.res2.correctedText = stageOut.res.correctedText
       /\ stageOut.res2.correctedExpression = stageOut.res.correctedExpression

\* The text has neither leading nor trailing whitespace.
NoSurroundingWhitespace(t) == t # Empty => (Head(t) # WS /\ t[Len(t)] # WS)

\* C21: the fullText of every result of extract is either exactly one of the
\* seven status markers or a non-empty string without leading or trailing
\* whitespace; it is never the empty string.
C21_ExtractedTextIsMarkerOrTrimmed ==
    Applied("extract")
    => /\ Truthy(stageOut.res.fullText)
       /\ \/ stageOut.res.fullText \in StatusMarkers
          \/ NoSurroundingWhitespace(stageOut.res.fullText)

\* C21 witness: the vision service answered a text with leading whitespace
\* and extract returned the text without it.
C21_Witness ==
    /\ VisionGaveText
    /\ stageIn.svc.fullText = <<WS, "x">>
    /\ stageOut.res.fullText = <<"x">>

\* C22: for every valid input fullText (non-empty, not a marker), the
\* correctedText returned by correct is itself valid content: never the
\* empty string and never a status marker, whatever the correction service
\* answers.
C22_CorrectedTextIsValidContent ==
    (Applied("correct") /\ IsValidContent(stageIn.text))
    => IsValidContent(stageOut.res.correctedText)

\* C27: when solve receives a valid text context together with an
\* expression equal to NO_TEXT_FOUND or OCR_PROCESSING_ERROR, it does not
\* short-circuit: it calls the solver service once, with the context
\* unchanged and the expression replaced by null.
C27_MarkerExpressionIsNullified ==
    (/\ Applied("solve") /\ IsValidContent(stageIn.text)
     /\ stageIn.expr \in {NO_TEXT_FOUND, OCR_PROCESSING_ERROR})
    => /\ stageOut.res.calls = 1
       /\ stageOut.res.sentContext = stageIn.text
       /\ stageOut.res.sentExpression = Null

\* C27 witness: solve was given the context "x" with the expression
\* NO_TEXT_FOUND and returned the answer of the solver service.
C27_Witness ==
    /\ Applied("solve")
    /\ stageIn.text = <<"x">>
    /\ stageIn.expr = NO_TEXT_FOUND
    /\ stageIn.svc = SolverResponse(TRUE, <<"42">>)
    /\ stageOut.res.solution = <<"42">>
    /\ stageOut.res.sentExpression = Null

\* The preprocessing outcome of the stage input is the one the placeholder
\* collaborator has for the image of the stage input.
PlaceholderPreprocessing == stageIn.pre = preprocessImageForOcr(stageIn.uri)

-----------------------------------------------------------------------------
(* Claims about the MathSolver component, checked under Spec *)

\* The last step handled the result of an extraction that came back as a
\* status marker.
MarkerExtractionReturned ==
    /\ lastEvent = "ocrReturn"
    /\ lastReturn.rpc.kind = "ok"
    /\ lastReturn.rpc.result.fullText \in StatusMarkers

\* C1: for every image whose extraction result is a status marker, the
\* controller makes no call to the correction stage or the solver stage for
\* it, and ends with no stage in flight and the marker recorded as the raw
\* OCR text: handling the marker starts no service, leaves no loading flag
\* raised, and while the marker is the raw OCR text no correction or solve
\* is running.
C1_MarkerEndsThePipeline ==
    /\ MarkerExtractionReturned
         => /\ ocrFullText = lastReturn.rpc.result.fullText
            /\ svcCalled = {}
            /\ ~isProcessing
    /\ ocrFullText \in StatusMarkers
         => /\ svcCalled \cap {"correction", "solver"} = {}
            /\ ~isLoadingCorrection /\ ~isLoadingSolution

\* The calls of each stage whose results the step handled.
ReturnedOcr == ocrCalls \ ocrCalls'
ReturnedCorrection == corrCalls \ corrCalls'
ReturnedSolve == solveCalls \ solveCalls'

\* C5: when a new image is uploaded while a stage call for an earlier image
\* is in flight, the late result of the old call is discarded: a step that
\* handles the result of a call made for another image than the current one
\* changes none of the raw OCR text, the corrected text, the corrected
\* expression and the solution.
C5_StaleResultsAreDiscarded ==
    [][\A call \in ReturnedOcr \cup ReturnedCorrection \cup ReturnedSolve :
          call.img # imageUrl
            => UNCHANGED <<ocrFullText, correctedFullText, correctedExpression,
                           solution>>]_vars

\* C6: an edit of the corrected text or expression clears the held solution,
\* and a non-empty solution is never held together with a corrected text
\* other than the one it was computed from.
C6_SolutionMatchesCorrectedText ==
    /\ lastEvent = "handleTextChange" => solution = Empty
    /\ solution # Empty => correctedFullText = solvedFrom

\* C7: the solver is only called from the user's Solve action: its service is
\* requested by no other step, and the step that handles a correction result
\* leaves no solve running.
C7_SolveOnlyOnUserAction ==
    /\ "solver" \in svcCalled => lastEvent = "handleSolve"
    /\ lastEvent = "correctionReturn" => (solveCalls = {} /\ ~isLoadingSolution)

\* C7 witness: a correction has just returned a corrected text that can be
\* solved, and no solve has been started.
C7_Witness ==
    /\ lastEvent = "correctionReturn"
    /\ lastReturn.rpc.kind = "ok"
    /\ correctedFullText = <<"y">>
    /\ canSolve /\ ~isProcessing
    /\ solveCalls = {}

\* The last step handled the result of an extraction that came back with
\* valid content.
ValidExtractionReturned ==
    /\ lastEvent = "ocrReturn"
    /\ lastReturn.rpc.kind = "ok"
    /\ IsValidContent(lastReturn.rpc.result.fullText)

C9_CorrectionReturnKeepsText ==
    lastEvent = "correctionReturn"
      => /\ ~isLoadingCorrection
         /\ correctedFullText =
              IF lastReturn.rpc.kind = "ok"
              THEN lastReturn.rpc.result.correctedText
              ELSE lastReturn.call.text

\* C19: after every completed solve attempt (short-circuit, service success,
\* invalid response or service error) the solution held by the controller
\* is a non-empty string.
C19_SolutionNeverEmptyAfterSolve ==
    /\ lastEvent = "solveReturn" => Truthy(solution)
    /\ (lastEvent = "handleSolve" /\ ~isLoadingSolution) => Truthy(solution)

\* Nothing of a result is held: raw OCR text and expression, corrected text
\* and expression and solution have their initial values.
ResultsCleared ==
    /\ ocrFullText = Empty /\ ocrExpression = Null
    /\ correctedFullText = Empty /\ correctedExpression = Null
    /\ solution = Empty

\* C23: when a new image is uploaded, the raw OCR text and expression, the
\* corrected text and expression and the solution of the previous image are
\* all cleared before the extraction of the new image starts: they are
\* cleared by the upload, and they are clear when the extraction is started.
C23_UploadClearsPreviousResult ==
    /\ lastEvent = "handleImageUpload" => ResultsCleared
    /\ (lastEvent = "readerOnLoad" /\ svcCalled = {"vision"}) => ResultsCleared

\* C23 witness: the second image has just been uploaded while the solve
\* requested for the first one is still running, and nothing is held.
C23_Witness ==
    /\ lastEvent = "handleImageUpload"
    /\ uploads = 2
    /\ \E call \in solveCalls : call.img = 1
    /\ ResultsCleared

\* C24: stages run strictly one at a time: in no reachable state are two
\* stage calls (extraction, correction, solve) in flight at once.
C24_OneStageCallAtATime ==
    Cardinality(ocrCalls) + Cardinality(corrCalls) + Cardinality(solveCalls) <= 1

\* C25: a user edit of the corrected text or expression invokes no stage
\* service and changes only the edited field, the solution and a
\* solver-related error message; the raw OCR text and expression, the other
\* corrected field, the loading flags and the calls in flight are unchanged.
C25_EditChangesOnlyItsField ==
    [][lastEvent' = "handleTextChange"
       => /\ svcCalled' = {}
          /\ UNCHANGED <<imageUrl, ocrFullText, ocrExpression,
                         isLoadingOcr, isLoadingCorrection, isLoadingSolution,
                         readers, ocrCalls, corrCalls, solveCalls>>
          /\ correctedFullText' = correctedFullText
               \/ correctedExpression' = correctedExpression
          /\ solution' = Empty
          /\ error' = error \/ (IsSolverError(error) /\ error' = Null)]_vars

\* C25 witness: the user has just replaced the corrected text of the
\* extracted text "x" by "z"; the raw text is kept and nothing is running.
C25_Witness ==
    /\ lastEvent = "handleTextChange"
    /\ ocrFullText = <<"x">>
    /\ correctedFullText = <<"z">>
    /\ solution = Empty
    /\ ~isProcessing /\ corrCalls = {}

\* C26: every solution string is classified into exactly one kind by its
\* prefix alone: Error if it begins with **Error:**, Conclusion if it begins
\* with **Conclusion:**, Success otherwise; the classification does not
\* alter the stored solution or the control flow of the solve stage.
C26_SolutionClassifiedByPrefix ==
    (lastEvent = "solveReturn" /\ lastReturn.rpc.kind = "ok")
    => LET sol == lastReturn.rpc.result.solution
           first == IF sol = Empty THEN "" ELSE Head(sol)
       IN  /\ solution = sol
           /\ ~isLoadingSolution /\ svcCalled = {}
           /\ first = "**Error:**" <=> lastReturn.toast = "Solver Issue"
           /\ first = "**Conclusion:**" <=> lastReturn.toast = "Solver Conclusion"
           /\ first \notin {"**Error:**", "**Conclusion:**"}
                <=> lastReturn.toast = "Solution Generated"

\* C26 witness: the solver answered a conclusion; it is stored as it is and
\* announced as a conclusion.
C26_Witness ==
    /\ lastEvent = "solveReturn" /\ lastReturn.rpc.kind = "ok"
    /\ solution = <<MATH_AI_CONCLUSION_PREFIX, " no real solution">>
    /\ lastReturn.toast = "Solver Conclusion"

\* C28: the extraction loading flag is true in every state where an
\* extraction call is in flight, so that Correct, Solve and Clear All are
\* never enabled while an extraction is running.
C28_FlagCoversExtractionInFlight ==
    ocrCalls # {} => (isLoadingOcr /\ isProcessing)

\* C29: in every reachable controller state a non-empty corrected text
\* implies that the recorded raw OCR text is valid content (non-empty and
\* no status marker).
C29_CorrectedTextNeedsValidOcrText ==
    correctedFullText # Empty => IsValidContent(ocrFullText)

\* Every pipeline field has its initial value.
Cleared ==
    /\ imageUrl = NoImage
    /\ ResultsCleared
    /\ error = Null
    /\ ~isLoadingOcr /\ ~isLoadingCorrection /\ ~isLoadingSolution

\* C30: after Clear All every pipeline field equals its initial value and
\* stays so until the next image upload: no other step, in particular no
\* result of an earlier call, changes a field of a cleared controller.
C30_ClearedUntilNextUpload ==
    [][/\ lastEvent' = "performClearAll" => Cleared'
       /\ (Cleared /\ lastEvent' # "handleImageUpload") => Cleared']_vars

\* The correction call whose result the last step handled failed: it threw
\* or gave an invalid response.
CorrectionFailed ==
    lastEvent = "correctionReturn" /\ lastReturn.rpc.kind \in {"throw", "invalid"}

\* C31: when a correction requested by the user fails (the call throws or
\* returns an invalid response), handleAiCorrection changes neither the
\* corrected text nor the corrected expression, so the edits of the user are
\* kept: the step that requests the correction changes only the solution,
\* the error message and the correction loading flag, and the step that
\* handles the failure changes only the error message and the flag.
C31_FailedCorrectionKeepsEdits ==
    [][/\ lastEvent' = "handleAiCorrection"
          => UNCHANGED <<imageUrl, preprocessedImageUrl, ocrFullText, ocrExpression,
                         correctedFullText, correctedExpression,
                         isLoadingOcr, isLoadingSolution>>
       /\ CorrectionFailed'
          => /\ UNCHANGED <<imageUrl, preprocessedImageUrl, ocrFullText, ocrExpression,
                            correctedFullText, correctedExpression, solution,
                            isLoadingOcr, isLoadingSolution>>
             /\ ~isLoadingCorrection'
             /\ svcCalled' = {}]_vars

\* C31 witness: the user edited the extracted text "x" to "z" and asked for
\* a correction; the call threw, the edit is still held and an error is
\* shown.
C31_Witness ==
    /\ CorrectionFailed /\ lastReturn.rpc.kind = "throw"
    /\ lastReturn.call.text = <<"z">>
    /\ ocrFullText = <<"x">>
    /\ correctedFullText = <<"z">>
    /\ Truthy(error)
    /\ ~isLoadingCorrection

\* The extraction call whose result the last step handled failed itself: it
\* threw or gave a structurally invalid result.
ExtractionCallFailed ==
    lastEvent = "ocrReturn" /\ lastReturn.rpc.kind \in {"throw", "invalid"}

\* C32: when the extraction call itself throws or returns a structurally
\* invalid result, the controller holds OCR_PROCESSING_ERROR as the raw OCR
\* text, an empty corrected text and no corrected expression, shows an
\* error, and has requested neither the correction nor the solver.
C32_FailedExtractionCallIsRecorded ==
    ExtractionCallFailed
      => /\ ocrFullText = OCR_PROCESSING_ERROR
         /\ correctedFullText = Empty
         /\ correctedExpression = Null
         /\ Truthy(error)
         /\ svcCalled = {}
         /\ ~isLoadingOcr

\* C33: provided every service call eventually returns or fails, the
\* controller always eventually reaches a state in which no loading flag is
\* set (Idle, ReadyToSolve or Done): every stage that raised its loading
\* flag eventually lowers it, and the controller never stays in Extracting,
\* Correcting or Solving.
C33_EveryStageEventuallyEnds == []<>(~isProcessing)

\* C33 witness: a solve was started, its call threw, and the flag has been
\* lowered all the same: nothing is loading.
C33_Witness ==
    /\ lastEvent = "solveReturn" /\ lastReturn.rpc.kind = "throw"
    /\ solveCalls = {}
    /\ ~isProcessing

\* An expression as the component holds it: null, or a string with at least
\* one character that is no whitespace.
NullOrNonBlank(e) == e = Null \/ (IsString(e) /\ Trim(e) # Empty)

\* C34: in every reachable controller state the raw and the corrected
\* expression are each null or a string with at least one non-whitespace
\* character, and so is the expression of every call made to the correction
\* or the solver: an empty or whitespace-only expression is neither stored
\* nor sent.
C34_ExpressionIsNullOrNonBlank ==
    /\ NullOrNonBlank(ocrExpression)
    /\ NullOrNonBlank(correctedExpression)
    /\ \A call \in corrCalls : NullOrNonBlank(call.expr)
    /\ \A call \in solveCalls : NullOrNonBlank(call.expr)

\* C34 witness: the extraction gave the expression "e" and the user has
\* just edited a field; the expression field holds null, not a blank
\* string.
C34_Witness ==
    /\ lastEvent = "handleTextChange"
    /\ ocrFullText = <<"x">> /\ ocrExpression = <<"e">>
    /\ correctedFullText = <<"x">>
    /\ correctedExpression = Null

====
